---- MODULE Spec2Model ----
(***************************************************************************)
(* Model of the AlphaFold serverless worker (src/runtime/handler.py):      *)
(* the one-time initialisation, the preload/status/stop control actions    *)
(* around the .dl.lock file, the compute branch of handler() with its      *)
(* scratch directories, the tar extractor and the output packager.         *)
(***************************************************************************)
EXTENDS Integers, Sequences, FiniteSets, TLC

(***************************************************************************)
(* Bounds                                                                  *)
(***************************************************************************)
MaxCallers == 2      \* callers of _init_once (threads, or worker processes)
MaxReqs == 2         \* action requests in flight
MaxJobs == 2         \* compute requests handled one after the other
MaxPresent == 2      \* input-source fields present together in one request
MaxSubdirs == 2      \* immediate subdirectories of a job output directory
MaxMembers == 2      \* entries of an uploaded tar archive
MaxPids == 2         \* process ids that helper processes may run under
MaxDeclared == 2     \* names in the file_names list of an upload

Callers == 1..MaxCallers
Procs == 1..MaxCallers
Reqs == 1..MaxReqs

VARIABLES
    INITIALIZED,  \* [Procs -> BOOLEAN]: the module global _INITIALIZED of each worker process
    initc,        \* [Callers -> [proc, pc, failed]]: each caller's position inside _init_once
    initLog,      \* [Procs -> [boot, diag, sets]]: scripts run and flag transitions per process
    dlLock,       \* holder of <db root>/.dl.lock: 0 when free, else the background process
    req,          \* [Reqs -> [action, pc, preset]]: handler invocations with an action
    bg,           \* [Reqs -> state]: the background process each preload call spawned
    bootLog,      \* [started, exited]: runs of /app/bootstrap_db.sh under flock
    job,          \* the compute request handler() is working on, and where it stands
    jobNo,        \* how many compute requests have been handed to handler()
    workDirs,     \* the jobs whose alphafold-input-* working directory exists
    jobDirs,      \* the jobs whose job-* output directory exists
    env,          \* the environment: PRESERVE_JOB_OUTPUT, RETURN_ARCHIVE, ARCHIVE_PATTERNS
    tarx,         \* one run of _safe_extract_tar_bytes: the archive, the position, the files written
    helpers,      \* the helper processes by pid, and what the last status and stop did with them
    upl           \* one run of the fasta_paths branch of _materialize_uploaded_inputs

coordVars == <<INITIALIZED, initc, initLog, dlLock, req, bg, bootLog>>
jobVars == <<job, jobNo, workDirs, jobDirs, env>>
auxVars == <<tarx, helpers, upl>>
vars == <<INITIALIZED, initc, initLog, dlLock, req, bg, bootLog,
          job, jobNo, workDirs, jobDirs, env, tarx, helpers, upl>>

(***************************************************************************)
(* _init_once and _run_script                                              *)
(***************************************************************************)
\* Exit statuses of a script run by _run_script: zero, or non-zero (also a kill
\* by signal), which subprocess.run(check=True) turns into CalledProcessError.
ScriptExits == {"zero", "nonzero"}

\* _run_script's except clause: CalledProcessError is caught and the output is
\* returned, so the caller continues whatever the exit status was.
run_script_returns(exit) == exit \in ScriptExits

\* A caller enters _init_once.
init_call(c) ==
    /\ initc[c].pc = "idle"
    /\ initc' = [initc EXCEPT ![c].pc = "called"]
    /\ UNCHANGED <<INITIALIZED, initLog, dlLock, req, bg, bootLog>>

\* Lines 49-51: read the flag, return when it is set.  No lock is taken.
init_check(c) ==
    /\ initc[c].pc = "called"
    /\ initc' = [initc EXCEPT ![c].pc =
                    IF INITIALIZED[initc[c].proc] THEN "returned" ELSE "entered"]
    /\ UNCHANGED <<INITIALIZED, initLog, dlLock, req, bg, bootLog>>

\* Line 60: subprocess.run starts /bin/bash /app/bootstrap_db.sh --diagnose and
\* waits for it; when the process cannot be started at all the OSError is not
\* caught by _run_script and leaves _init_once with the flag unset.
init_run_bootstrap(c) ==
    /\ initc[c].pc = "entered"
    /\ \/ /\ initc' = [initc EXCEPT ![c].pc = "boot"]
          /\ initLog' = [initLog EXCEPT ![initc[c].proc].boot = @ + 1]
       \/ /\ initc' = [initc EXCEPT ![c].pc = "raised"]
          /\ UNCHANGED initLog
    /\ UNCHANGED <<INITIALIZED, dlLock, req, bg, bootLog>>

\* Lines 44-45, 61-62: the bootstrap script exits, with any status.
init_bootstrap_done(c) ==
    /\ initc[c].pc = "boot"
    /\ \E exit \in ScriptExits :
          /\ run_script_returns(exit)
          /\ initc' = [initc EXCEPT ![c].pc = "booted",
                                    ![c].failed = @ \/ (exit = "nonzero")]
    /\ UNCHANGED <<INITIALIZED, initLog, dlLock, req, bg, bootLog>>

\* Line 65: /bin/bash /app/diagnose_storage.sh is started.
init_run_diagnose(c) ==
    /\ initc[c].pc = "booted"
    /\ \/ /\ initc' = [initc EXCEPT ![c].pc = "diag"]
          /\ initLog' = [initLog EXCEPT ![initc[c].proc].diag = @ + 1]
       \/ /\ initc' = [initc EXCEPT ![c].pc = "raised"]
          /\ UNCHANGED initLog
    /\ UNCHANGED <<INITIALIZED, dlLock, req, bg, bootLog>>

\* Lines 66-70: the diagnosis exits, its output is logged, the flag is set.
init_set_flag(c) ==
    /\ initc[c].pc = "diag"
    /\ \E exit \in ScriptExits :
          /\ run_script_returns(exit)
          /\ initc' = [initc EXCEPT ![c].pc = "returned",
                                    ![c].failed = @ \/ (exit = "nonzero")]
    /\ INITIALIZED' = [INITIALIZED EXCEPT ![initc[c].proc] = TRUE]
    /\ initLog' = [initLog EXCEPT ![initc[c].proc].sets =
                      IF INITIALIZED[initc[c].proc] THEN @ ELSE @ + 1]
    /\ UNCHANGED <<dlLock, req, bg, bootLog>>

init_once(c) ==
    \/ init_call(c)
    \/ init_check(c)
    \/ init_run_bootstrap(c)
    \/ init_bootstrap_done(c)
    \/ init_run_diagnose(c)
    \/ init_set_flag(c)

\* Callers of _init_once that currently have a bootstrap_db.sh process running.
InitBootstraps == {c \in Callers : initc[c].pc = "boot"}

(***************************************************************************)
(* handler(): the action branch (status, diagnose, stop, preload)          *)
(***************************************************************************)
Presets == {"absent", "full_dbs"}     \* input_payload.get("preset")
DefaultPreset == "reduced_dbs"        \* os.environ.get("DB_AUTO_PRESET", "reduced_dbs")
Actions == {"status", "diagnose", "stop", "preload", "bogus"}

IdleRequest == [action |-> "none", pc |-> "idle", preset |-> "absent",
                status |-> "none", pid |-> 0, log |-> "none",
                fields |-> [f \in {} |-> "absent"]]

\* Worker processes whose main() is past _init_once (line 504-507: an exception
\* of _init_once is logged and the serving loop starts all the same).
Serving == {c \in Callers : initc[c].pc \in {"returned", "raised"}}

\* Background processes that currently run /app/bootstrap_db.sh under the lock.
LockedBootstraps == {r \in Reqs : bg[r] = "bootstrap"}

\* Every running /app/bootstrap_db.sh, whoever started it.
ActiveBootstraps == Cardinality(LockedBootstraps) + Cardinality(InitBootstraps)

\* Line 372: preset = input_payload.get("preset") or the environment's default.
preset_of(p) == IF p = "absent" THEN DefaultPreset ELSE p

\* Line 375: the log file named after the preset, under the database root.
log_of(p) == IF preset_of(p) = "full_dbs" THEN "bootstrap_full_dbs.log"
                                          ELSE "bootstrap_reduced_dbs.log"

\* The serving runtime hands a request with an action to handler() of a worker
\* that is serving.
handler_call(r) ==
    /\ req[r].pc = "idle"
    /\ Serving # {}
    /\ \E a \in Actions, p \in Presets :
          req' = [req EXCEPT ![r] = [IdleRequest EXCEPT !.action = a, !.pc = "called",
                                                        !.preset = p]]
    /\ UNCHANGED <<INITIALIZED, initc, initLog, dlLock, bg, bootLog>>

\* Lines 347-352: status and diagnose return a snapshot and change nothing.
handler_status(r) ==
    /\ req[r].pc = "called"
    /\ req[r].action \in {"status", "diagnose"}
    /\ req' = [req EXCEPT ![r].pc = "returned", ![r].status = "ok"]
    /\ UNCHANGED <<INITIALIZED, initc, initLog, dlLock, bg, bootLog>>

\* Line 397: any other action name.
handler_unknown(r) ==
    /\ req[r].pc = "called"
    /\ req[r].action \notin {"status", "diagnose", "stop", "preload"}
    /\ req' = [req EXCEPT ![r].pc = "returned", ![r].status = "error"]
    /\ UNCHANGED <<INITIALIZED, initc, initLog, dlLock, bg, bootLog>>

\* Lines 354-369: pgrep -fa bootstrap_db.sh lists the spawned wrappers (their
\* command line holds the script's name), the scripts under flock and the ones
\* _init_once runs; each is sent SIGTERM.  A killed script under flock drops
\* the lock; _run_script sees a killed script as CalledProcessError.
handler_stop(r) ==
    /\ req[r].pc = "called"
    /\ req[r].action = "stop"
    /\ req' = [req EXCEPT ![r].pc = "returned", ![r].status = "ok"]
    /\ bg' = [b \in Reqs |-> IF bg[b] \in {"spawned", "bootstrap"} THEN "killed" ELSE bg[b]]
    /\ dlLock' = 0
    /\ bootLog' = [bootLog EXCEPT !.exited = @ + Cardinality(LockedBootstraps)]
    /\ initc' = [c \in Callers |->
                    IF initc[c].pc = "boot"
                    THEN [initc[c] EXCEPT !.pc = "booted", !.failed = TRUE]
                    ELSE initc[c]]
    /\ UNCHANGED <<INITIALIZED, initLog>>

\* Lines 372-387 and _spawn_background (290-294): Popen starts
\* bash -lc "flock -n <db root>/.dl.lock -c '/app/bootstrap_db.sh --diagnose'"
\* and returns its pid at once; nothing is read back from the process.
handler_preload_spawn(r) ==
    /\ req[r].pc = "called"
    /\ req[r].action = "preload"
    /\ bg[r] = "none"
    /\ bg' = [bg EXCEPT ![r] = "spawned"]
    /\ req' = [req EXCEPT ![r].pc = "spawned", ![r].pid = r]
    /\ UNCHANGED <<INITIALIZED, initc, initLog, dlLock, bootLog>>

handler_preload_return_after_flock(r) ==
    /\ req[r].pc = "spawned"
    /\ bg[r] # "spawned"
    /\ req' = [req EXCEPT ![r].pc = "returned",
                          ![r].status = IF bg[r] = "lockfail" THEN "error" ELSE "started",
                          ![r].preset = preset_of(req[r].preset),
                          ![r].log = log_of(req[r].preset)]
    /\ UNCHANGED <<INITIALIZED, initc, initLog, dlLock, bg, bootLog>>

\* Lines 388-395: the response, built without looking at the spawned process.
handler_preload_return(r) ==
    /\ req[r].pc = "spawned"
    /\ req' = [req EXCEPT ![r].pc = "returned", ![r].status = "started",
                          ![r].preset = preset_of(req[r].preset),
                          ![r].log = log_of(req[r].preset)]
    /\ UNCHANGED <<INITIALIZED, initc, initLog, dlLock, bg, bootLog>>

flock_always_runs(r) ==
    /\ bg[r] = "spawned"
    /\ bg' = [bg EXCEPT ![r] = "bootstrap"]
    /\ dlLock' = r
    /\ bootLog' = [bootLog EXCEPT !.started = @ + 1]
    /\ UNCHANGED <<INITIALIZED, initc, initLog, req>>

\* Line 385, flock -n: the spawned process takes the lock when it is free and
\* runs the bootstrap script; when the lock is held it exits at once, non-zero.
flock_attempt(r) ==
    /\ bg[r] = "spawned"
    /\ IF dlLock = 0
       THEN /\ bg' = [bg EXCEPT ![r] = "bootstrap"]
            /\ dlLock' = r
            /\ bootLog' = [bootLog EXCEPT !.started = @ + 1]
       ELSE /\ bg' = [bg EXCEPT ![r] = "lockfail"]
            /\ UNCHANGED <<dlLock, bootLog>>
    /\ UNCHANGED <<INITIALIZED, initc, initLog, req>>

\* Line 385, flock -c: the script ends and flock gives the lock back.
bootstrap_exit(r) ==
    /\ bg[r] = "bootstrap"
    /\ bg' = [bg EXCEPT ![r] = "exited"]
    /\ dlLock' = 0
    /\ bootLog' = [bootLog EXCEPT !.exited = @ + 1]
    /\ UNCHANGED <<INITIALIZED, initc, initLog, req>>

\* .dl.lock lies under the database root, a volume the workers share: the
\* holder may be the process of a preload that another worker served.
OtherWorker == MaxReqs + 1

\* Line 385, flock -c, in that process: its script ends, the lock is free.
other_bootstrap_exit ==
    /\ dlLock = OtherWorker
    /\ dlLock' = 0
    /\ bootLog' = [bootLog EXCEPT !.exited = @ + 1]
    /\ UNCHANGED <<INITIALIZED, initc, initLog, req, bg>>

(***************************************************************************)
(* Input sources: _materialize_uploaded_inputs and _prepare_fasta_inputs   *)
(***************************************************************************)
\* The input-source fields of a request and, per field, the cases the code
\* tells apart ("absent": the key is not in the payload).
SourceFields == {"fasta_path", "fasta_paths", "fasta_dir",
                 "sequence_list", "sequence", "fasta_url"}
Fields == SourceFields \cup {"input_archive"}

ValuesOf(f) ==
    CASE f = "fasta_path"    -> {"absent", "missing", "file"}
      [] f = "fasta_paths"   -> {"absent", "empty", "missing", "nofasta", "files"}
      [] f = "fasta_dir"     -> {"absent", "notdir", "nofasta", "dir"}
      [] f = "sequence_list" -> {"absent", "empty", "blank", "seqs"}
      [] f = "sequence"      -> {"absent", "empty", "seq"}
      [] f = "fasta_url"     -> {"absent", "unreachable", "url"}
      [] f = "input_archive" -> {"absent", "falsy", "nobase64", "undecodable",
                                 "unsafe", "corrupt", "kind_unknown",
                                 "dir_ok", "dir_nofasta", "dir_noroot",
                                 "paths_ok", "paths_nofasta"}

NoPayload == [f \in Fields |-> "absent"]

Payloads ==
    {p \in {[input_archive |-> a, fasta_path |-> b, fasta_paths |-> c, fasta_dir |-> d,
             sequence_list |-> e, sequence |-> f, fasta_url |-> g] :
                a \in ValuesOf("input_archive"), b \in ValuesOf("fasta_path"),
                c \in ValuesOf("fasta_paths"), d \in ValuesOf("fasta_dir"),
                e \in ValuesOf("sequence_list"), f \in ValuesOf("sequence"),
                g \in ValuesOf("fasta_url")} :
        Cardinality({f \in Fields : p[f] # "absent"}) <= MaxPresent}

Failed(e) == [exc |-> e, input |-> [source |-> "none", value |-> "none", path |-> "none"]]
Made(f, v, path) == [exc |-> "none", input |-> [source |-> f, value |-> v, path |-> path]]

\* Lines 121-169.  The result is the exception raised ("none" when the function
\* returns) and the payload as the function leaves it.
materialize_uploaded_inputs(payload) ==
    LET upload == payload["input_archive"]
        raise(e) == [exc |-> e, payload |-> payload]
        rewrite(f, v) == [exc |-> "none",
                          payload |-> [payload EXCEPT ![f] = v,
                                                      !["input_archive"] = "absent"]]
    IN  IF upload \in {"absent", "falsy"} THEN [exc |-> "none", payload |-> payload]
        ELSE IF upload = "nobase64" THEN raise("ValueError")
        ELSE IF upload = "undecodable" THEN raise("ValueError")
        ELSE IF upload = "unsafe" THEN raise("ValueError")
        ELSE IF upload = "corrupt" THEN raise("ReadError")
        ELSE IF upload \in {"dir_ok", "dir_nofasta", "dir_noroot"}
             THEN IF upload = "dir_noroot" THEN raise("ValueError")
                  ELSE rewrite("fasta_dir",
                               IF upload = "dir_ok" THEN "xdir" ELSE "xdir_nofasta")
        ELSE IF upload \in {"paths_ok", "paths_nofasta"}
             THEN IF upload = "paths_nofasta" THEN raise("ValueError")
                  ELSE rewrite("fasta_paths", "xfiles")
        ELSE raise("ValueError")

\* Lines 173-179.
from_fasta_path(v) ==
    IF v = "file" THEN Made("fasta_path", v, "copy") ELSE Failed("FileNotFoundError")

\* Lines 181-189, with _copy_fasta_files (93-102).
from_fasta_paths(v) ==
    IF v = "empty" THEN Failed("ValueError")
    ELSE IF v = "missing" THEN Failed("FileNotFoundError")
    ELSE IF v = "nofasta" THEN Failed("ValueError")
    ELSE Made("fasta_paths", v, "batch_fasta")

\* Lines 191-195, with _copy_fasta_files (93-102).
from_fasta_dir(v) ==
    IF v = "notdir" THEN Failed("NotADirectoryError")
    ELSE IF v \in {"nofasta", "xdir_nofasta"} THEN Failed("ValueError")
    ELSE Made("fasta_dir", v, "dirname")

\* Lines 197-206.
from_sequence_list(v) ==
    IF v \in {"empty", "blank"} THEN Failed("ValueError")
    ELSE Made("sequence_list", v, "batch_sequences")

\* Lines 208-212.
from_sequence(v) ==
    IF v = "empty" THEN Failed("ValueError") ELSE Made("sequence", v, "input.fasta")

\* Lines 214-215, with _download_fasta (81-86).
from_fasta_url(v) ==
    IF v = "unreachable" THEN Failed("RequestException")
    ELSE Made("fasta_url", v, "input.fasta")

prepare_fasta_inputs_dir_first(payload) ==
    IF payload["fasta_path"] # "absent" THEN from_fasta_path(payload["fasta_path"])
    ELSE IF payload["fasta_dir"] # "absent" THEN from_fasta_dir(payload["fasta_dir"])
    ELSE IF payload["fasta_paths"] # "absent" THEN from_fasta_paths(payload["fasta_paths"])
    ELSE IF payload["sequence"] # "absent" THEN from_sequence(payload["sequence"])
    ELSE IF payload["sequence_list"] # "absent"
         THEN from_sequence_list(payload["sequence_list"])
    ELSE IF payload["fasta_url"] # "absent" THEN from_fasta_url(payload["fasta_url"])
    ELSE Failed("ValueError")

\* Lines 172-220: the first field present, in the order of the if statements.
prepare_fasta_inputs(payload) ==
    IF payload["fasta_path"] # "absent" THEN from_fasta_path(payload["fasta_path"])
    ELSE IF payload["fasta_paths"] # "absent" THEN from_fasta_paths(payload["fasta_paths"])
    ELSE IF payload["fasta_dir"] # "absent" THEN from_fasta_dir(payload["fasta_dir"])
    ELSE IF payload["sequence_list"] # "absent"
         THEN from_sequence_list(payload["sequence_list"])
    ELSE IF payload["sequence"] # "absent" THEN from_sequence(payload["sequence"])
    ELSE IF payload["fasta_url"] # "absent" THEN from_fasta_url(payload["fasta_url"])
    ELSE Failed("ValueError")

(***************************************************************************)
(* Output packager: _archive_selected_outputs, _prepare_archives,          *)
(* _collect_outputs                                                        *)
(***************************************************************************)
\* An output tree: the files of the job output directory itself and its
\* immediate subdirectories (named 1, 2, ...), each holding files and child
\* directories; a child directory holds the files InnerFiles gives it.
FileNames == {"ranked_0.pdb", "features.pkl"}
ChildDirs == {"msas", "pae_plots"}
InnerFiles(d) == IF d = "msas" THEN {"ranked_0.pdb"} ELSE {"a.png"}
SubNames == 1..MaxSubdirs
RootName == 0

Contents == [files : SUBSET FileNames, dirs : SUBSET ChildDirs]
Trees == {[files |-> F, subs |-> s] :
             F \in SUBSET FileNames,
             s \in UNION {[S -> Contents] : S \in SUBSET SubNames}}

\* Line 23-31, and an ARCHIVE_PATTERNS override (lines 224-228).
DEFAULT_ARCHIVE_PATTERNS ==
    <<"ranked_*.pdb", "relaxed_model_*_pred_0.pdb", "ranking_debug.json",
      "relax_metrics.json", "timings.json", "plddt.*", "pae*">>
PatternSettings == {"unset", "*.pdb,ranked_*"}
patterns_of(setting) ==
    IF setting = "unset" THEN DEFAULT_ARCHIVE_PATTERNS ELSE <<"*.pdb", "ranked_*">>

\* Path.glob of one pattern without "/" or "**": the names of the directory's
\* own entries, files and directories alike, that the pattern matches.
GlobMatch(pattern, name) ==
    \/ pattern \in {"ranked_*.pdb", "*.pdb", "ranked_*"} /\ name = "ranked_0.pdb"
    \/ pattern = "pae*" /\ name = "pae_plots"

\* The entries of a directory in the order glob yields them (any fixed order).
EntryOrder == <<"features.pkl", "msas", "pae_plots", "ranked_0.pdb">>
Entries(content) == content.files \cup content.dirs

RECURSIVE glob_from(_, _, _)
glob_from(content, pattern, i) ==
    IF i > Len(EntryOrder) THEN <<>>
    ELSE (IF EntryOrder[i] \in Entries(content) /\ GlobMatch(pattern, EntryOrder[i])
          THEN <<EntryOrder[i]>> ELSE <<>>) \o glob_from(content, pattern, i + 1)

InSeq(x, q) == \E i \in 1..Len(q) : q[i] = x

RECURSIVE add_unseen(_, _)
add_unseen(matches, found) ==
    IF found = <<>> THEN matches
    ELSE add_unseen(IF InSeq(Head(found), matches) THEN matches
                    ELSE Append(matches, Head(found)), Tail(found))

\* Lines 230-237: the matches of every pattern in turn, each relative path once.
RECURSIVE selected_matches(_, _, _, _)
selected_matches(content, patterns, i, matches) ==
    IF i > Len(patterns) THEN matches
    ELSE selected_matches(content, patterns, i + 1,
                          add_unseen(matches, glob_from(content, patterns[i], 1)))

\* tar.add(match, arcname=relative path): a file is one member; a directory is
\* added with everything beneath it.
tar_add(content, name) ==
    IF name \in content.dirs
    THEN {<<name>>} \cup {<<name, f>> : f \in InnerFiles(name)}
    ELSE {<<name>>}

\* Lines 223-249: None without a match, else the encoded archive of the matches.
archive_selected_outputs(content, setting) ==
    LET matches == selected_matches(content, patterns_of(setting), 1, <<>>)
    IN  IF matches = <<>> THEN [none |-> TRUE, members |-> {}]
        ELSE [none |-> FALSE,
              members |-> UNION {tar_add(content, matches[i]) : i \in 1..Len(matches)}]

\* Lines 254-256: the immediate subdirectories in sorted order, or the output
\* directory itself when it has none.
candidates(tree) ==
    IF DOMAIN tree.subs = {}
    THEN <<[name |-> RootName, content |-> [files |-> tree.files, dirs |-> {}]]>>
    ELSE LET RECURSIVE from(_)
             from(n) ==
                 IF n > MaxSubdirs THEN <<>>
                 ELSE (IF n \in DOMAIN tree.subs
                       THEN <<[name |-> n, content |-> tree.subs[n]]>> ELSE <<>>)
                      \o from(n + 1)
         IN  from(1)

\* Line 247: the archive's bytes in their base64 text form.
b64encode(members) == [b64 |-> members]

archive_entry_always(target, setting) ==
    <<[name |-> <<target.name, ".tar.gz">>,
       base64 |-> b64encode(archive_selected_outputs(target.content, setting).members)]>>

\* Lines 258-265: one manifest entry for a target that yields an archive.
archive_entry(target, setting) ==
    LET a == archive_selected_outputs(target.content, setting)
    IN  IF a.none THEN <<>>
        ELSE <<[name |-> <<target.name, ".tar.gz">>, base64 |-> b64encode(a.members)]>>

\* Lines 252-266.
prepare_archives(tree, setting) ==
    LET c == candidates(tree)
        RECURSIVE from(_)
        from(i) == IF i > Len(c) THEN <<>>
                   ELSE archive_entry(c[i], setting) \o from(i + 1)
    IN  from(1)

\* Lines 270-278: every file of the tree, by its path relative to the root.
listed_files(tree) ==
    LET under(c) == {<<f>> : f \in c.files}
                    \cup UNION {{<<d, f>> : f \in InnerFiles(d)} : d \in c.dirs}
    IN  {<<f>> : f \in tree.files}
        \cup UNION {{<<n>> \o q : q \in under(tree.subs[n])} : n \in DOMAIN tree.subs}

collect_outputs_any_archive(tree, e) ==
    LET archives == IF e.return_archive = "1" THEN prepare_archives(tree, e.patterns)
                    ELSE <<>>
    IN  [files |-> listed_files(tree)]
        @@ (IF archives # <<>>
            THEN [archives |-> archives, archive_base64 |-> archives[1].base64]
            ELSE [x \in {} |-> 0])

\* Lines 269-287.
collect_outputs(tree, e) ==
    LET archives == IF e.return_archive = "1" THEN prepare_archives(tree, e.patterns)
                    ELSE <<>>
    IN  [files |-> listed_files(tree)]
        @@ (IF archives # <<>> THEN [archives |-> archives] ELSE [x \in {} |-> 0])
        @@ (IF Len(archives) = 1 THEN [archive_base64 |-> archives[1].base64]
            ELSE [x \in {} |-> 0])

(***************************************************************************)
(* handler(): the compute branch                                           *)
(***************************************************************************)
Envs == [preserve : {"0", "1"}, return_archive : {"1", "0"}, patterns : PatternSettings]

NoTree == [files |-> {}, subs |-> [n \in {} |-> 0]]
NoInput == [source |-> "none", value |-> "none", path |-> "none"]
IdleJob == [pc |-> "idle", payload0 |-> NoPayload, payload |-> NoPayload,
            fasta |-> NoInput, exc |-> "none", failedAt |-> "none",
            invoked |-> FALSE, packaged |-> FALSE, rc |-> 0, output |-> "none",
            tree |-> NoTree, result |-> [status |-> "none"]]

\* What the external computation may leave in the job output directory: nothing
\* to archive, one result set, or one result set per subdirectory.
SampleTrees ==
    {[files |-> {"features.pkl"}, subs |-> [n \in {} |-> 0]],
     [files |-> {}, subs |-> [n \in {1} |-> [files |-> {"ranked_0.pdb"}, dirs |-> {"msas"}]]],
     [files |-> {}, subs |-> [n \in 1..MaxSubdirs |->
                                 [files |-> {"ranked_0.pdb"}, dirs |-> {}]]]}
ExitCodes == {1, 137}
Outputs == {"text", "not_utf8"}

leave_with_block_leak(dirs, j) == dirs

\* Line 399: TemporaryDirectory's __exit__ removes the working directory when
\* the with block is left, by return, by exception or at its end.
leave_with_block(dirs, j) == dirs \ {j}

\* The serving runtime hands handler() a request without an action.
job_call ==
    /\ job.pc = "idle"
    /\ jobNo < MaxJobs
    /\ jobNo' = jobNo + 1
    /\ \E p \in Payloads :
          job' = [IdleJob EXCEPT !.pc = "called", !.payload0 = p, !.payload = p]
    /\ UNCHANGED <<workDirs, jobDirs, env>>

\* Lines 399-400: the working directory is created.
job_enter ==
    /\ job.pc = "called"
    /\ workDirs' = workDirs \cup {jobNo}
    /\ job' = [job EXCEPT !.pc = "workdir"]
    /\ UNCHANGED <<jobNo, jobDirs, env>>

\* Line 401.
job_materialize ==
    /\ job.pc = "workdir"
    /\ LET m == materialize_uploaded_inputs(job.payload)
       IN  IF m.exc = "none"
           THEN /\ job' = [job EXCEPT !.pc = "materialized", !.payload = m.payload]
                /\ UNCHANGED workDirs
           ELSE /\ job' = [job EXCEPT !.pc = "raised", !.exc = m.exc,
                                      !.failedAt = "materialize"]
                /\ workDirs' = leave_with_block(workDirs, jobNo)
    /\ UNCHANGED <<jobNo, jobDirs, env>>

\* Line 402.
job_prepare ==
    /\ job.pc = "materialized"
    /\ LET x == prepare_fasta_inputs(job.payload)
       IN  IF x.exc = "none"
           THEN /\ job' = [job EXCEPT !.pc = "prepared", !.fasta = x.input]
                /\ UNCHANGED workDirs
           ELSE /\ job' = [job EXCEPT !.pc = "raised", !.exc = x.exc,
                                      !.failedAt = "prepare"]
                /\ workDirs' = leave_with_block(workDirs, jobNo)
    /\ UNCHANGED <<jobNo, jobDirs, env>>

\* Lines 404-411: the job output directory is created under the output root.
job_mkoutdir ==
    /\ job.pc = "prepared"
    /\ jobDirs' = jobDirs \cup {jobNo}
    /\ job' = [job EXCEPT !.pc = "ready"]
    /\ UNCHANGED <<jobNo, workDirs, env>>

\* Lines 413-439: the computation is started; when it cannot be started the
\* OSError of subprocess.run is caught by nothing and leaves handler().
job_run ==
    /\ job.pc = "ready"
    /\ \/ /\ job' = [job EXCEPT !.pc = "running", !.invoked = TRUE]
          /\ UNCHANGED workDirs
       \/ /\ job' = [job EXCEPT !.pc = "raised", !.exc = "OSError", !.failedAt = "start"]
          /\ workDirs' = leave_with_block(workDirs, jobNo)
    /\ UNCHANGED <<jobNo, jobDirs, env>>

\* Lines 440-446: a non-zero exit.  exc.stdout.decode("utf-8") is strict: output
\* that is not UTF-8 raises UnicodeDecodeError inside the except clause.
job_computation_fails ==
    /\ job.pc = "running"
    /\ \E rc \in ExitCodes, out \in Outputs :
          job' = IF out = "text"
                 THEN [job EXCEPT !.pc = "returned", !.rc = rc, !.output = out,
                                  !.result = [status |-> "error",
                                              message |-> "Alphafold execution failed.",
                                              details |-> out]]
                 ELSE [job EXCEPT !.pc = "raised", !.rc = rc, !.output = out,
                                  !.exc = "UnicodeDecodeError", !.failedAt = "decode"]
    /\ workDirs' = leave_with_block(workDirs, jobNo)
    /\ UNCHANGED <<jobNo, jobDirs, env>>

\* Exit status zero: the with block ends with the computation's files in the
\* job output directory.
job_computation_succeeds ==
    /\ job.pc = "running"
    /\ \E t \in SampleTrees : job' = [job EXCEPT !.pc = "collect", !.tree = t]
    /\ workDirs' = leave_with_block(workDirs, jobNo)
    /\ UNCHANGED <<jobNo, jobDirs, env>>

\* Line 448.
job_collect ==
    /\ job.pc = "collect"
    /\ job' = [job EXCEPT !.pc = "collected", !.packaged = TRUE,
                          !.result = [status |-> "none"] @@ collect_outputs(job.tree, env)]
    /\ UNCHANGED <<jobNo, workDirs, jobDirs, env>>

\* Line 514: the serving runtime takes the result, or the exception, of the
\* invocation, whose frame is gone; the directories stay as they are.
job_deliver ==
    /\ job.pc \in {"returned", "raised"}
    /\ job' = IdleJob
    /\ UNCHANGED <<jobNo, workDirs, jobDirs, env>>

should_cleanup_always(e) == TRUE

\* Line 450: os.environ.get("PRESERVE_JOB_OUTPUT", "0") != "1".
should_cleanup(e) == e.preserve # "1"

\* Lines 449-462: the job output directory is removed unless
\* PRESERVE_JOB_OUTPUT is "1", and the success result is returned.
job_return ==
    /\ job.pc = "collected"
    /\ jobDirs' = IF should_cleanup(env) THEN jobDirs \ {jobNo} ELSE jobDirs
    /\ job' = [job EXCEPT !.pc = "returned",
                          !.result = [status |-> "success", output_dir |-> jobNo,
                                      output_parent |-> "outputs"] @@ job.result]
    /\ UNCHANGED <<jobNo, workDirs, env>>

(***************************************************************************)
(* handler(): the classification of an event (lines 335-339)               *)
(***************************************************************************)
\* input_payload.get("action"): the key is absent (None), holds the empty
\* string, or holds a name.
ActionValues == Actions \cup {"absent", ""}

\* The payloads an event is drawn from here: nothing else, or one input-source
\* field or upload, next to the action.
EventPayloads == {p \in Payloads : Cardinality({f \in Fields : p[f] # "absent"}) <= 1}

is_action_when_known(a) == a \in {"status", "diagnose", "stop", "preload"}

\* Line 339, "if action:": any truthy value takes the action branch.
is_action(a) == a \notin {"absent", ""}

\* A worker handles one event at a time.
WorkerFree == job.pc = "idle" /\ \A q \in Reqs : req[q].pc = "idle"

\* Lines 335-339: the runtime hands handler() an event; the action value alone
\* decides between the action branch and the compute branch.
handler_event(r) ==
    /\ WorkerFree
    /\ Serving # {}
    /\ \E a \in ActionValues, p \in EventPayloads :
          IF is_action(a)
          THEN /\ a = "preload" => bg[r] = "none"
               /\ req' = [req EXCEPT ![r] = [IdleRequest EXCEPT !.action = a,
                                                                !.pc = "called",
                                                                !.fields = p]]
               /\ UNCHANGED <<job, jobNo>>
          ELSE /\ jobNo < MaxJobs
               /\ jobNo' = jobNo + 1
               /\ req' = [req EXCEPT ![r] = [IdleRequest EXCEPT !.action = a,
                                                                !.pc = "compute",
                                                                !.fields = p]]
               /\ job' = [IdleJob EXCEPT !.pc = "called", !.payload0 = p, !.payload = p]
    /\ UNCHANGED <<INITIALIZED, initc, initLog, dlLock, bg, bootLog,
                   workDirs, jobDirs, env, auxVars>>

\* Line 514: the runtime takes the response of an action request.
handler_deliver(r) ==
    /\ req[r].pc = "returned"
    /\ req' = [req EXCEPT ![r] = IdleRequest]
    /\ UNCHANGED <<INITIALIZED, initc, initLog, dlLock, bg, bootLog, jobVars, auxVars>>

\* Line 514: the runtime takes the result, or the exception, of a compute
\* request.
compute_deliver(r) ==
    /\ req[r].pc = "compute"
    /\ job_deliver
    /\ req' = [req EXCEPT ![r] = IdleRequest]
    /\ UNCHANGED <<INITIALIZED, initc, initLog, dlLock, bg, bootLog, auxVars>>

(***************************************************************************)
(* Archive extractor: _safe_extract_tar_bytes                              *)
(***************************************************************************)
\* Path segments are character sequences, so that str.startswith is a prefix
\* of characters.  The destination is /w/u; /w/ue is a sibling directory whose
\* name starts with the destination's.
SegW == <<"w">>
SegU == <<"u">>
SegUE == <<"u", "e">>
SegX == <<"x">>
SegA == <<"a">>
SegUp == <<".", ".">>
Destination == <<SegW, SegU>>

\* Member names of the archive: relative ones, and one absolute.
MemberNames ==
    {[abs |-> FALSE, segs |-> q] :
        q \in {<<SegA>>, <<SegX, SegA>>, <<SegX, SegUp, SegA>>, <<SegUp, SegA>>,
               <<SegUp, SegUE, SegA>>, <<SegUp, SegX, SegA>>, <<SegUp>>,
               <<SegX, SegUp, SegUp, SegUE>>}}
    \cup {[abs |-> TRUE, segs |-> <<SegX, SegA>>]}
Archives == UNION {[1..n -> MemberNames] : n \in 1..MaxMembers}

\* destination / member.name: an absolute name replaces the destination.
member_path(m) == IF m.abs THEN m.segs ELSE Destination \o m.segs

\* Path.resolve() on a path with no symbolic link: ".." drops a segment.
RECURSIVE resolve_from(_, _)
resolve_from(done, rest) ==
    IF rest = <<>> THEN done
    ELSE IF Head(rest) = SegUp
         THEN resolve_from(IF done = <<>> THEN <<>> ELSE SubSeq(done, 1, Len(done) - 1),
                           Tail(rest))
         ELSE resolve_from(Append(done, Head(rest)), Tail(rest))
resolve(path) == resolve_from(<<>>, path)

\* str(path): "/" before every segment.
RECURSIVE path_str(_)
path_str(path) ==
    IF path = <<>> THEN <<>> ELSE <<"/">> \o Head(path) \o path_str(Tail(path))

startswith(str, prefix) ==
    Len(prefix) <= Len(str) /\ SubSeq(str, 1, Len(prefix)) = prefix

\* Lines 110-116: the test an entry must pass.
member_accepted(m) ==
    startswith(path_str(resolve(member_path(m))), path_str(resolve(Destination)))

\* The path is the destination or lies beneath it, segment by segment.
IsInside(path) ==
    Len(Destination) <= Len(path) /\ SubSeq(path, 1, Len(Destination)) = Destination

\* extractall's filter: none before Python 3.14 ("fully_trusted"), "data" from
\* 3.14 on, which refuses an entry outside the destination when it reaches it.
TarFilters == {"fully_trusted", "data"}

IdleTar == [pc |-> "idle", members |-> <<>>, filter |-> "fully_trusted", i |-> 0,
            written |-> {}, exc |-> "none"]

\* Lines 106-108: the destination is created and the archive opened.
tar_open ==
    /\ tarx.pc = "start"
    /\ tarx' = [tarx EXCEPT !.pc = "check", !.i = 1]
    /\ UNCHANGED <<coordVars, jobVars, helpers, upl>>

\* Lines 109-117: one turn of the loop over tar.getmembers().
tar_check_member ==
    /\ tarx.pc = "check"
    /\ tarx' = IF tarx.i > Len(tarx.members)
               THEN [tarx EXCEPT !.pc = "extract", !.i = 1]
               ELSE IF member_accepted(tarx.members[tarx.i])
                    THEN [tarx EXCEPT !.i = @ + 1]
                    ELSE [tarx EXCEPT !.pc = "raised", !.exc = "ValueError"]
    /\ UNCHANGED <<coordVars, jobVars, helpers, upl>>

\* Line 118: tar.extractall writes the entries in order.
tar_extract_member ==
    /\ tarx.pc = "extract"
    /\ tarx' = IF tarx.i > Len(tarx.members)
               THEN [tarx EXCEPT !.pc = "done"]
               ELSE LET to == resolve(member_path(tarx.members[tarx.i]))
                    IN  IF tarx.filter = "data" /\ ~IsInside(to)
                        THEN [tarx EXCEPT !.pc = "raised", !.exc = "FilterError"]
                        ELSE [tarx EXCEPT !.i = @ + 1, !.written = @ \cup {to}]
    /\ UNCHANGED <<coordVars, jobVars, helpers, upl>>

(***************************************************************************)
(* Helper processes: _db_status (318-324) and the stop action (354-369)    *)
(***************************************************************************)
Pids == 1..MaxPids

\* Line 319: the names whose processes the status snapshot lists.
STATUS_NAMES == {"download_all_data.sh", "aria2c", "rsync"}

\* Line 356: the names whose processes the stop action looks up and signals.
STOP_NAMES == {"download_all_data.sh", "bootstrap_db.sh", "aria2c"}

\* What may run under a pid: one of the helpers, something else, or nothing.
Commands == STATUS_NAMES \cup STOP_NAMES \cup {"python"}
NoProcess == "none"
ProcessTables == [Pids -> Commands \cup {NoProcess}]

\* Lines 321 and 358, pgrep -fa <name>: the processes whose command line
\* holds the name.
pgrep(table, name) == {pid \in Pids : table[pid] = name}

\* Lines 318-324: procs, per name the matching processes.
db_status_procs(table) == [name \in STATUS_NAMES |-> pgrep(table, name)]

\* Lines 355-366: stopped, per name the process ids that were sent SIGTERM.
stop_sweep(table) == [name \in STOP_NAMES |-> pgrep(table, name)]

NoHelpers == [running |-> [pid \in Pids |-> NoProcess], signaled |-> {},
              stopped |-> [n \in {} |-> {}], procs |-> [n \in {} |-> {}]]

\* The runtime hands handler() a status, diagnose or stop request.
helper_request_call(r) ==
    /\ handler_call(r)
    /\ req'[r].action \in {"status", "diagnose", "stop"}
    /\ req'[r].preset = "absent"
    /\ UNCHANGED <<jobVars, auxVars>>

\* Lines 347-352 with _db_status: the snapshot of the matching processes.
status_request(r) ==
    /\ handler_status(r)
    /\ helpers' = [helpers EXCEPT !.procs = db_status_procs(helpers.running)]
    /\ UNCHANGED <<jobVars, tarx, upl>>

\* Lines 354-369: every process found under one of the stop names is sent
\* SIGTERM and ends; the response lists the pids per name.
stop_request(r) ==
    /\ handler_stop(r)
    /\ LET stopped == stop_sweep(helpers.running)
           signaled == UNION {stopped[n] : n \in STOP_NAMES}
       IN  helpers' = [helpers EXCEPT
                         !.stopped = stopped,
                         !.signaled = signaled,
                         !.running = [pid \in Pids |->
                                         IF pid \in signaled THEN NoProcess
                                         ELSE helpers.running[pid]]]
    /\ UNCHANGED <<jobVars, tarx, upl>>

\* A helper process ends by itself.
helper_exit(pid) ==
    /\ helpers.running[pid] # NoProcess
    /\ helpers' = [helpers EXCEPT !.running[pid] = NoProcess]
    /\ UNCHANGED <<coordVars, jobVars, tarx, upl>>

(***************************************************************************)
(* _materialize_uploaded_inputs, kind fasta_paths (lines 150-165)          *)
(***************************************************************************)
\* The files an extracted archive may hold: a directory, and a name made of a
\* stem and a suffix.
UploadDirs == {"a", "b"}
UploadNames == {[stem |-> "x", suffix |-> ".fasta"],
                [stem |-> "y", suffix |-> ".FA"],
                [stem |-> "n", suffix |-> ".txt"]}
UploadPaths == [dir : UploadDirs, name : UploadNames]

\* Line 22.
FASTA_EXTENSIONS == {".fa", ".fasta", ".faa", ".fas"}

\* str.lower() on the suffixes at hand.
lower(suffix) == IF suffix = ".FA" THEN ".fa" ELSE suffix

\* Lines 89-90.
is_fasta_file(path) == lower(path.name.suffix) \in FASTA_EXTENSIONS

\* upload.get("file_names"): absent or empty (<<>>), or a list of names.
DeclaredLists == UNION {[1..n -> UploadNames] : n \in 0..MaxDeclared}

\* The order of two paths is the order of their parts: the directory first,
\* then the name ("n.txt" < "x.fasta" < "y.FA").
Rank(path) ==
    (IF path.dir = "a" THEN 0 ELSE 3)
    + (IF path.name.stem = "n" THEN 0 ELSE IF path.name.stem = "x" THEN 1 ELSE 2)

RECURSIVE sorted(_)
sorted(S) ==
    IF S = {} THEN <<>>
    ELSE LET m == CHOOSE x \in S : \A y \in S : Rank(x) <= Rank(y)
         IN  <<m>> \o sorted(S \ {m})

SeqRange(q) == {q[i] : i \in 1..Len(q)}

\* extract_dir.rglob("*") yields the files in the order of the directory
\* listings, which the file system chooses: any order of the FASTA files.
Enumerations(S) ==
    {q \in [1..Cardinality(S) -> S] : \A i, j \in 1..Cardinality(S) : q[i] = q[j] => i = j}

\* Line 157, {p.name: p for p in fasta_files}: a later file of the same name
\* takes the place of an earlier one.
RECURSIVE lookup_of(_, _)
lookup_of(fasta_files, i) ==
    IF i = 0 THEN [n \in {} |-> 0]
    ELSE LET before == lookup_of(fasta_files, i - 1)
         IN  [n \in DOMAIN before \cup {fasta_files[i].name} |->
                 IF n = fasta_files[i].name THEN fasta_files[i] ELSE before[n]]

\* Lines 158-161: lookup.pop(name, None) for each declared name, in order.
RECURSIVE pop_declared(_, _, _, _)
pop_declared(lookup, file_names, i, ordered) ==
    IF i > Len(file_names) THEN [lookup |-> lookup, ordered |-> ordered]
    ELSE IF file_names[i] \in DOMAIN lookup
         THEN pop_declared([n \in DOMAIN lookup \ {file_names[i]} |-> lookup[n]],
                           file_names, i + 1, Append(ordered, lookup[file_names[i]]))
         ELSE pop_declared(lookup, file_names, i + 1, ordered)

\* Lines 154-164.
order_fasta_files(fasta_files, file_names) ==
    IF file_names # <<>>
    THEN LET t == pop_declared(lookup_of(fasta_files, Len(fasta_files)), file_names, 1, <<>>)
         IN  t.ordered \o sorted({t.lookup[n] : n \in DOMAIN t.lookup})
    ELSE sorted(SeqRange(fasta_files))

IdleUpload == [pc |-> "idle", files |-> {}, file_names |-> <<>>, fasta_files |-> <<>>,
               exc |-> "none", fasta_paths |-> <<>>]

\* Lines 151-153: the FASTA files under the extraction directory.
upl_rglob ==
    /\ upl.pc = "extracted"
    /\ LET fasta == {p \in upl.files : is_fasta_file(p)}
       IN  IF fasta = {}
           THEN upl' = [upl EXCEPT !.pc = "raised", !.exc = "ValueError"]
           ELSE \E q \in Enumerations(fasta) :
                   upl' = [upl EXCEPT !.pc = "found", !.fasta_files = q]
    /\ UNCHANGED <<coordVars, jobVars, tarx, helpers>>

\* Lines 154-165: fasta_paths is rewritten.
upl_rewrite ==
    /\ upl.pc = "found"
    /\ upl' = [upl EXCEPT !.pc = "done",
                          !.fasta_paths = order_fasta_files(upl.fasta_files, upl.file_names)]
    /\ UNCHANGED <<coordVars, jobVars, tarx, helpers>>

(***************************************************************************)
(* One process, several callers of _init_once                              *)
(***************************************************************************)
NoRequests == [r \in Reqs |-> IdleRequest]
NoBackground == [r \in Reqs |-> "none"]
NoBootLog == [started |-> 0, exited |-> 0]
NoInitLog == [p \in Procs |-> [boot |-> 0, diag |-> 0, sets |-> 0]]
DefaultEnv == [preserve |-> "0", return_archive |-> "1", patterns |-> "unset"]
NoJobs ==
    /\ job = IdleJob
    /\ jobNo = 0
    /\ workDirs = {}
    /\ jobDirs = {}
    /\ env = DefaultEnv
    /\ tarx = IdleTar
    /\ helpers = NoHelpers
    /\ upl = IdleUpload

InitOnce ==
    /\ INITIALIZED = [p \in Procs |-> FALSE]
    /\ initc = [c \in Callers |-> [proc |-> 1, pc |-> "idle", failed |-> FALSE]]
    /\ initLog = NoInitLog
    /\ dlLock = 0
    /\ req = NoRequests
    /\ bg = NoBackground
    /\ bootLog = NoBootLog
    /\ NoJobs

NextOnce == (\E c \in Callers : init_once(c)) /\ UNCHANGED <<jobVars, auxVars>>

SpecOnce == InitOnce /\ [][NextOnce]_vars

(***************************************************************************)
(* Two concurrent preload calls on a free lock                             *)
(***************************************************************************)
InitPreload ==
    /\ INITIALIZED = [p \in Procs |-> TRUE]
    /\ initc = [c \in Callers |-> [proc |-> c, pc |-> "returned", failed |-> FALSE]]
    /\ initLog = [p \in Procs |-> [boot |-> 1, diag |-> 1, sets |-> 1]]
    /\ dlLock = 0
    /\ req \in [Reqs -> {[IdleRequest EXCEPT !.action = "preload", !.pc = "called",
                                              !.preset = p] : p \in Presets}]
    /\ bg = NoBackground
    /\ bootLog = NoBootLog
    /\ NoJobs

NextPreload ==
    /\ \E r \in Reqs :
          \/ handler_preload_spawn(r)
          \/ flock_attempt(r)
          \/ bootstrap_exit(r)
          \/ handler_preload_return(r)
    /\ UNCHANGED <<jobVars, auxVars>>

SpecPreload == InitPreload /\ [][NextPreload]_vars

(***************************************************************************)
(* Preload calls while another worker's bootstrap holds the lock           *)
(***************************************************************************)
InitPreloadHeld ==
    /\ INITIALIZED = [p \in Procs |-> TRUE]
    /\ initc = [c \in Callers |-> [proc |-> c, pc |-> "returned", failed |-> FALSE]]
    /\ initLog = [p \in Procs |-> [boot |-> 1, diag |-> 1, sets |-> 1]]
    /\ dlLock = OtherWorker
    /\ req \in [Reqs -> {[IdleRequest EXCEPT !.action = "preload", !.pc = "called",
                                              !.preset = p] : p \in Presets}]
    /\ bg = NoBackground
    /\ bootLog = [started |-> 1, exited |-> 0]
    /\ NoJobs

NextPreloadHeld ==
    /\ \/ \E r \in Reqs :
             \/ handler_preload_spawn(r)
             \/ flock_attempt(r)
             \/ bootstrap_exit(r)
             \/ handler_preload_return(r)
       \/ other_bootstrap_exit
    /\ UNCHANGED <<jobVars, auxVars>>

SpecPreloadHeld == InitPreloadHeld /\ [][NextPreloadHeld]_vars

(***************************************************************************)
(* The whole system: workers starting up and serving action requests       *)
(***************************************************************************)
Init ==
    /\ INITIALIZED = [p \in Procs |-> FALSE]
    /\ initc = [c \in Callers |-> [proc |-> c, pc |-> "idle", failed |-> FALSE]]
    /\ initLog = NoInitLog
    /\ dlLock = 0
    /\ req = NoRequests
    /\ bg = NoBackground
    /\ bootLog = NoBootLog
    /\ NoJobs

Next ==
    /\ \/ \E c \in Callers : init_once(c)
       \/ \E r \in Reqs :
             \/ handler_call(r)
             \/ handler_status(r)
             \/ handler_unknown(r)
             \/ handler_stop(r)
             \/ handler_preload_spawn(r)
             \/ handler_preload_return(r)
             \/ flock_attempt(r)
             \/ bootstrap_exit(r)
    /\ UNCHANGED <<jobVars, auxVars>>

Spec == Init /\ [][Next]_vars

(***************************************************************************)
(* Compute requests, one after the other, on a worker that is serving      *)
(***************************************************************************)
Served ==
    /\ INITIALIZED = [p \in Procs |-> TRUE]
    /\ initc = [c \in Callers |-> [proc |-> c, pc |-> "returned", failed |-> FALSE]]
    /\ initLog = [p \in Procs |-> [boot |-> 1, diag |-> 1, sets |-> 1]]
    /\ dlLock = 0
    /\ req = NoRequests
    /\ bg = NoBackground
    /\ bootLog = NoBootLog

InitJob ==
    /\ Served
    /\ job = IdleJob
    /\ jobNo = 0
    /\ workDirs = {}
    /\ jobDirs = {}
    /\ env \in Envs
    /\ tarx = IdleTar
    /\ helpers = NoHelpers
    /\ upl = IdleUpload

NextJob ==
    /\ \/ job_call
       \/ job_enter
       \/ job_materialize
       \/ job_prepare
       \/ job_mkoutdir
       \/ job_run
       \/ job_computation_fails
       \/ job_computation_succeeds
       \/ job_collect
       \/ job_return
       \/ job_deliver
    /\ UNCHANGED <<coordVars, auxVars>>

SpecJob == InitJob /\ [][NextJob]_vars

(***************************************************************************)
(* The packaging of any output tree: handler() after a successful run      *)
(***************************************************************************)
InitPack ==
    /\ Served
    /\ jobNo = 1
    /\ workDirs = {}
    /\ jobDirs = {1}
    /\ env \in Envs
    /\ tarx = IdleTar
    /\ helpers = NoHelpers
    /\ upl = IdleUpload
    /\ \E t \in Trees :
          job = [IdleJob EXCEPT !.pc = "collect", !.invoked = TRUE, !.tree = t,
                                !.payload0 = [NoPayload EXCEPT !["sequence"] = "seq"],
                                !.payload = [NoPayload EXCEPT !["sequence"] = "seq"],
                                !.fasta = from_sequence("seq").input]

NextPack ==
    /\ \/ job_collect
       \/ job_return
    /\ UNCHANGED <<coordVars, auxVars>>

SpecPack == InitPack /\ [][NextPack]_vars

(***************************************************************************)
(* The extraction of any uploaded archive                                  *)
(***************************************************************************)
InitTar ==
    /\ Served
    /\ job = IdleJob
    /\ jobNo = 0
    /\ workDirs = {}
    /\ jobDirs = {}
    /\ env = DefaultEnv
    /\ \E a \in Archives, f \in TarFilters :
          tarx = [IdleTar EXCEPT !.pc = "start", !.members = a, !.filter = f]
    /\ helpers = NoHelpers
    /\ upl = IdleUpload

NextTar ==
    \/ tar_open
    \/ tar_check_member
    \/ tar_extract_member

SpecTar == InitTar /\ [][NextTar]_vars

(***************************************************************************)
(* One worker serving any events, action requests and compute requests     *)
(***************************************************************************)
\* The handler's own steps; the processes a preload leaves behind are followed
\* in Spec and SpecPreload.
InitDispatch ==
    /\ Served
    /\ NoJobs

NextDispatch ==
    \/ \E r \in Reqs :
          \/ handler_event(r)
          \/ handler_deliver(r)
          \/ compute_deliver(r)
          \/ /\ \/ handler_status(r)
                \/ handler_unknown(r)
                \/ handler_stop(r)
                \/ handler_preload_spawn(r)
                \/ handler_preload_return(r)
             /\ UNCHANGED <<jobVars, auxVars>>
    \/ /\ \/ job_enter
          \/ job_materialize
          \/ job_prepare
          \/ job_mkoutdir
          \/ job_run
          \/ job_computation_fails
          \/ job_computation_succeeds
          \/ job_collect
          \/ job_return
       /\ UNCHANGED <<coordVars, auxVars>>

SpecDispatch == InitDispatch /\ [][NextDispatch]_vars

(***************************************************************************)
(* Status, diagnose and stop requests over any table of processes          *)
(***************************************************************************)
InitStop ==
    /\ Served
    /\ job = IdleJob
    /\ jobNo = 0
    /\ workDirs = {}
    /\ jobDirs = {}
    /\ env = DefaultEnv
    /\ tarx = IdleTar
    /\ upl = IdleUpload
    /\ \E t \in ProcessTables : helpers = [NoHelpers EXCEPT !.running = t]

NextStop ==
    \/ \E r \in Reqs :
          \/ helper_request_call(r)
          \/ status_request(r)
          \/ stop_request(r)
    \/ \E pid \in Pids : helper_exit(pid)

SpecStop == InitStop /\ [][NextStop]_vars

(***************************************************************************)
(* The ordering of the files of any fasta_paths upload                     *)
(***************************************************************************)
InitUpload ==
    /\ Served
    /\ job = IdleJob
    /\ jobNo = 0
    /\ workDirs = {}
    /\ jobDirs = {}
    /\ env = DefaultEnv
    /\ tarx = IdleTar
    /\ helpers = NoHelpers
    /\ \E F \in SUBSET UploadPaths, d \in DeclaredLists :
          upl = [IdleUpload EXCEPT !.pc = "extracted", !.files = F, !.file_names = d]

NextUpload ==
    \/ upl_rglob
    \/ upl_rewrite

SpecUpload == InitUpload /\ [][NextUpload]_vars

(***************************************************************************)
(* Claims about the bootstrap coordinator                                  *)
(***************************************************************************)
\* Every spawned flock process has made its attempt and every call has returned.
PreloadsSettled ==
    /\ \A r \in Reqs : req[r].action = "preload" => req[r].pc = "returned"
    /\ \A r \in Reqs : bg[r] \notin {"none", "spawned"}

\* C1 as stated: two concurrent preload calls on a free lock start exactly one
\* bootstrap process, whatever the interleaving.
C1_ExactlyOneBootstrapStarted == PreloadsSettled => bootLog.started = 1

\* C1, amended: concurrent preload calls on a free lock never have two bootstrap
\* processes running together; a further one starts only after the running one
\* has exited and released .dl.lock, so exactly one is started as long as the
\* first is still running when the other calls make their attempt, and at least
\* one is started always.
C1_SingleFlight ==
    /\ Cardinality(LockedBootstraps) <= 1
    /\ bootLog.started <= bootLog.exited + 1
    /\ (\A r \in Reqs : bg[r] \notin {"none", "spawned"}) => bootLog.started >= 1
    /\ (PreloadsSettled /\ bootLog.exited = 0) => bootLog.started = 1

\* One call's process runs the bootstrap, the other call's found the lock held.
C1_Witness ==
    \E r1, r2 \in Reqs :
        /\ bg[r1] = "bootstrap" /\ bg[r2] = "lockfail"
        /\ req[r1].pc = "returned" /\ req[r2].pc = "returned"

\* C2: at most one /app/bootstrap_db.sh process is active at a time, whatever
\* the interleaving of worker start-up (_init_once) and action requests.
C2_AtMostOneActiveBootstrap == ActiveBootstraps <= 1

\* C3: within one process the one-time initialisation runs at most once: the
\* flag goes from false to true at most once and each script is run at most
\* once, for any number of callers of _init_once.
C3_InitAtMostOnce ==
    \A p \in Procs :
        /\ initLog[p].sets <= 1
        /\ initLog[p].boot <= 1
        /\ initLog[p].diag <= 1

(***************************************************************************)
(* Claims about the compute branch                                         *)
(***************************************************************************)
Ended == job.pc \in {"returned", "raised"}

\* C4: when a handler invocation for a compute request ends, by a
\* materialization error, a failed or unstartable computation, or success (the
\* with block is then behind it), its working directory no longer exists.
C4_WorkingDirRemoved ==
    /\ workDirs \subseteq {jobNo}
    /\ job.pc \in {"idle", "collect", "collected", "returned", "raised"} => workDirs = {}

\* A computation that exited non-zero, its handler returned, no directory left.
C4_Witness ==
    /\ job.pc = "returned" /\ job.invoked /\ job.rc # 0
    /\ job.result.status = "error"
    /\ workDirs = {}

\* C5: a compute request whose input classification or materialization fails
\* never reaches the external computation, and handler() returns a result with
\* status "error" instead of letting an exception escape.
C5_InputErrorsAreReturned ==
    (Ended /\ job.failedAt \in {"materialize", "prepare"})
        => /\ ~job.invoked
           /\ job.pc = "returned"
           /\ job.result.status = "error"

\* C6: when the computation exits non-zero, handler() returns (does not raise)
\* a result with status "error" that carries the exit code and the combined
\* output, and the packager is not run.
C6_FailureIsReturnedWithExitCode ==
    (Ended /\ job.rc # 0)
        => /\ job.pc = "returned"
           /\ job.result.status = "error"
           /\ "returncode" \in DOMAIN job.result
           /\ job.result.returncode = job.rc
           /\ job.result.details = job.output
           /\ ~job.packaged

\* C8: one input source governs materialization.  The archive is expanded
\* first and rewrites fasta_dir or fasta_paths; then the first field present in
\* the order fasta_path, fasta_paths, fasta_dir, sequence_list, sequence,
\* fasta_url decides the produced input (or the error) alone, whatever the
\* fields after it hold; a request with no source field is rejected.
C8_Precedence ==
    <<"fasta_path", "fasta_paths", "fasta_dir", "sequence_list", "sequence", "fasta_url">>

C8_Expanded(p) ==
    CASE p["input_archive"] \in {"dir_ok", "dir_nofasta"} ->
            [p EXCEPT !["fasta_dir"] =
                         IF p["input_archive"] = "dir_ok" THEN "xdir" ELSE "xdir_nofasta",
                      !["input_archive"] = "absent"]
      [] p["input_archive"] = "paths_ok" ->
            [p EXCEPT !["fasta_paths"] = "xfiles", !["input_archive"] = "absent"]
      [] OTHER -> p

C8_Governing(p) ==
    LET present == {i \in 1..Len(C8_Precedence) : p[C8_Precedence[i]] # "absent"}
    IN  IF present = {} THEN "none"
        ELSE C8_Precedence[CHOOSE i \in present : \A k \in present : i <= k]

C8_Alone(f, v) ==
    CASE f = "fasta_path" -> from_fasta_path(v)
      [] f = "fasta_paths" -> from_fasta_paths(v)
      [] f = "fasta_dir" -> from_fasta_dir(v)
      [] f = "sequence_list" -> from_sequence_list(v)
      [] f = "sequence" -> from_sequence(v)
      [] f = "fasta_url" -> from_fasta_url(v)

C8_OneSourceGoverns ==
    (job.pc \notin {"idle", "called", "workdir", "materialized"}
     /\ job.failedAt # "materialize")
        => LET R == C8_Expanded(job.payload0)
               g == C8_Governing(R)
           IN  IF g = "none"
               THEN job.failedAt = "prepare" /\ job.exc = "ValueError" /\ ~job.invoked
               ELSE IF C8_Alone(g, R[g]).exc = "none"
                    THEN job.failedAt # "prepare" /\ job.fasta = C8_Alone(g, R[g]).input
                    ELSE job.failedAt = "prepare" /\ job.exc = C8_Alone(g, R[g]).exc

\* An expanded archive governs although the request also carries a sequence.
C8_Witness ==
    /\ job.pc = "prepared"
    /\ job.payload0["input_archive"] = "dir_ok"
    /\ job.payload0["sequence"] = "seq"
    /\ job.fasta.source = "fasta_dir" /\ job.fasta.value = "xdir"

(***************************************************************************)
(* Claims about the output packager                                        *)
(***************************************************************************)
Manifest == IF "archives" \in DOMAIN job.result THEN job.result.archives ELSE <<>>
Packaged == job.pc = "collected" /\ env.return_archive = "1"

C9_Targets(tree) == IF DOMAIN tree.subs = {} THEN {RootName} ELSE DOMAIN tree.subs
C9_Content(tree, n) ==
    IF n = RootName THEN [files |-> tree.files, dirs |-> {}] ELSE tree.subs[n]
C9_Matching(names) ==
    {n \in names : \E i \in 1..Len(patterns_of(env.patterns)) :
                      GlobMatch(patterns_of(env.patterns)[i], n)}

C10_SingularFieldIffOneArchive ==
    (job.pc = "returned" /\ job.result.status = "success") =>
        LET r == job.result
            built == IF env.return_archive = "1"
                     THEN prepare_archives(job.tree, env.patterns) ELSE <<>>
        IN  /\ ("archives" \in DOMAIN r) <=> (Len(built) >= 1)
            /\ ("archive_base64" \in DOMAIN r) <=> (Len(built) = 1)
            /\ "archives" \in DOMAIN r => r.archives = built
            /\ "archive_base64" \in DOMAIN r => r.archive_base64 = r.archives[1].base64

\* A success result with exactly one archive and the singular field.
C10_Witness ==
    /\ job.pc = "returned" /\ job.result.status = "success"
    /\ "archive_base64" \in DOMAIN job.result
    /\ Len(job.result.archives) = 1

(***************************************************************************)
(* Claim about the archive extractor                                       *)
(***************************************************************************)
\* C7: an archive with an entry whose resolved path is not the destination or
\* beneath it is refused as a whole: the extraction fails and no entry is
\* written, wherever the entry stands in the archive.
C7_EscapingArchiveWritesNothing ==
    (\E i \in 1..Len(tarx.members) : ~IsInside(resolve(member_path(tarx.members[i]))))
        => /\ tarx.written = {}
           /\ tarx.pc # "done"

(***************************************************************************)
(* Claims about preload under a held lock                                  *)
(***************************************************************************)
\* C13: a preload request served while .dl.lock is held does not fail and
\* does not wait: once the process is spawned the response can be returned at
\* once, whoever holds the lock and whatever the spawned process has done, and
\* the response is always status "started" with the pid and the log location.
C13_PreloadNeverBlocksNorFails ==
    \A r \in Reqs :
        /\ req[r].pc = "called" => ENABLED handler_preload_spawn(r)
        /\ req[r].pc = "spawned" => ENABLED handler_preload_return(r)
        /\ req[r].pc = "returned"
             => /\ req[r].status = "started"
                /\ req[r].pid = r
                /\ req[r].log = log_of(req[r].preset)
                /\ req[r].preset \in {DefaultPreset, "full_dbs"}

\* The other worker's bootstrap has held the lock all along; a preload was
\* answered with "started" and its process found the lock held.
C13_Witness ==
    /\ dlLock = OtherWorker
    /\ \E r \in Reqs :
          /\ req[r].pc = "returned"
          /\ req[r].status = "started"
          /\ bg[r] = "lockfail"

(***************************************************************************)
(* Claims about the job output directory                                   *)
(***************************************************************************)
Succeeded == job.pc = "returned" /\ job.result.status = "success"

\* C12: for a compute request whose computation succeeds, the job output
\* directory is there, with the computation's files, until the file listing
\* and the archives have been built from it; it is removed only after that,
\* before handler() returns, when PRESERVE_JOB_OUTPUT is not "1", and it is
\* still there, contents unchanged, when the flag is "1".
C12_DeletedAfterPackagingUnlessPreserved ==
    /\ [](job.pc \in {"collect", "collected"} => jobNo \in jobDirs)
    /\ [](Succeeded =>
            /\ job.packaged
            /\ "files" \in DOMAIN job.result
            /\ (env.preserve # "1" => jobNo \notin jobDirs)
            /\ (env.preserve = "1" => jobNo \in jobDirs))
    /\ [][(jobNo \in jobDirs /\ jobNo \notin jobDirs')
             => /\ job.packaged
                /\ "files" \in DOMAIN job.result
                /\ Succeeded']_vars
    /\ [][(job.pc \in {"collect", "collected"} /\ job'.pc # "idle")
             => job'.tree = job.tree]_vars

\* A successful job was packaged into an archive and its directory removed.
C12_Witness ==
    /\ Succeeded
    /\ env.preserve = "0"
    /\ "archives" \in DOMAIN job.result
    /\ job.result.files # {}
    /\ jobNo \notin jobDirs

(***************************************************************************)
(* Claims about the classification of events                               *)
(***************************************************************************)
NamedAction(q) == q.action \notin {"none", "absent", ""}

\* C11: a request that names an action (status, diagnose, stop, preload or an
\* unknown name) is never handled by the compute branch, and no step taken for
\* it creates a working directory or a job output directory or invokes the
\* computation, whatever input-source fields it carries; an unknown action
\* name is answered with a result of status "error".
C11_ActionsLeaveNoTrace ==
    /\ [](\A r \in Reqs :
             NamedAction(req[r]) =>
                /\ req[r].pc # "compute"
                /\ job = IdleJob
                /\ workDirs = {}
                /\ (req[r].pc = "returned"
                      /\ req[r].action \notin {"status", "diagnose", "stop", "preload"})
                        => req[r].status = "error")
    /\ [][(\E r \in Reqs : NamedAction(req[r]) \/ NamedAction(req'[r]))
             => UNCHANGED <<job, jobNo, workDirs, jobDirs>>]_vars

\* An unknown action next to an input source was answered with an error, and
\* so was a preload next to an upload with "started", after an earlier compute
\* request had run.
C11_Witness ==
    \E r \in Reqs :
        /\ req[r].pc = "returned"
        /\ req[r].action \in {"bogus", "preload"}
        /\ req[r].fields \in EventPayloads
        /\ req[r].fields # NoPayload
        /\ jobNo = 1

(***************************************************************************)
(* Claims about the helper processes                                       *)
(***************************************************************************)
\* C14: when the stop action is served, every running process whose name is
\* one of those the status snapshot reports is sent the termination signal,
\* and the stopped map lists, per name, exactly the pids that were signaled.
C14_StopSignalsEveryReportedHelper ==
    [][\A r \in Reqs :
          (req[r].action = "stop" /\ req[r].pc = "called" /\ req'[r].pc = "returned")
            => /\ \A pid \in Pids :
                     helpers.running[pid] \in STATUS_NAMES => pid \in helpers'.signaled
               /\ \A name \in DOMAIN helpers'.stopped :
                     helpers'.stopped[name]
                       = {pid \in helpers'.signaled : helpers.running[pid] = name}
               /\ helpers'.signaled
                     = UNION {helpers'.stopped[name] : name \in DOMAIN helpers'.stopped}]_vars

(***************************************************************************)
(* Claims about the files of an upload                                     *)
(***************************************************************************)
Declared(name) == \E i \in 1..Len(upl.file_names) : upl.file_names[i] = name
FirstDeclared(name) ==
    CHOOSE i \in 1..Len(upl.file_names) :
        /\ upl.file_names[i] = name
        /\ \A j \in 1..(i - 1) : upl.file_names[j] # name

\* C15: for an upload of kind fasta_paths the rewritten fasta_paths holds
\* every FASTA-suffixed file under the extraction directory exactly once:
\* first the files whose names are declared in file_names, in the declared
\* order, then the remaining files in sorted order; files that share a name
\* in different subdirectories are all there.
C15_EveryFastaFileOnceInDeclaredOrder ==
    upl.pc = "done" =>
        LET out == upl.fasta_paths
            n == Len(out)
        IN  /\ \A p \in upl.files :
                  is_fasta_file(p) => Cardinality({i \in 1..n : out[i] = p}) = 1
            /\ \A i \in 1..n : out[i] \in upl.files /\ is_fasta_file(out[i])
            /\ \A i, j \in 1..n :
                  i < j =>
                     /\ Declared(out[j].name) => Declared(out[i].name)
                     /\ (Declared(out[i].name) /\ Declared(out[j].name))
                           => FirstDeclared(out[i].name) <= FirstDeclared(out[j].name)
                     /\ (~Declared(out[i].name) /\ ~Declared(out[j].name))
                           => Rank(out[i]) < Rank(out[j])

(***************************************************************************)
(* Claims about failed jobs                                                *)
(***************************************************************************)
\* C16: no job output directory outlives a failed job: when the computation
\* exits non-zero, or cannot be started, and PRESERVE_JOB_OUTPUT is not "1",
\* the directory made for the job is gone when the invocation ends.
C16_NoOutputDirAfterFailure ==
    (Ended /\ (job.rc # 0 \/ job.failedAt = "start") /\ env.preserve # "1")
        => jobNo \notin jobDirs

====
